---- MODULE Spec2Model ----
(***************************************************************************)
(* The runtime core of the tile-world game: the frame-quantized scheduler  *)
(* (core/loop.py: Loop, LoopManager) and the event dispatcher              *)
(* (core/event.py: EventManager).                                          *)
(*                                                                         *)
(* Time is counted in half milliseconds, so that dt = 1.5 ms is the        *)
(* integer 3.  Every dt and every elapsed_time of the model is a multiple  *)
(* of 0.5 ms far below 2^53, hence exactly representable as a Python       *)
(* float; each_count_time = 1000 / fps is in general not, and is computed  *)
(* here as the IEEE-754 double the interpreter computes.                   *)
(***************************************************************************)
EXTENDS Integers, Sequences, FiniteSets, TLC

(***************************************************************************)
(* Bounds of the model.                                                    *)
(***************************************************************************)
\* Loop objects constructed in one behaviour.
MaxLoops == 3
\* Loops the host registers in the scenarios whose callbacks do nothing.
MaxPlain == 2
\* Callback invocations per loop after which no further update call starts.
MaxFired == 4
\* EventListener objects constructed in one behaviour.
MaxListeners == 3
\* Largest width and height of a Grid.
MaxWidth == 3
MaxHeight == 2
\* Largest number of coordinates a CoordinateSet is grown to.
MaxCoordinates == 4

(***************************************************************************)
(* Inputs.                                                                 *)
(***************************************************************************)
\* fps arguments of loop and once.
FpsSet == {1000, 500}
\* delay_ms arguments of delay.
DelaySet == {2, 15}
\* dt arguments of update, in half milliseconds: 0 ms, 1.5 ms, 5 ms.
DtSet == {0, 3, 10}
\* Event types (integers, as pygame's): TYPE_A and TYPE_B.
TypeSet == {1, 2}

(***************************************************************************)
(* Python floats (IEEE-754 doubles): [hi, lo, ex] is the double            *)
(* (hi * 2^27 + lo) * 2^ex with a 53-bit mantissa, 2^25 <= hi < 2^26;      *)
(* hi = 0 is 0.0.  Mantissas are kept in two limbs because TLC's          *)
(* integers are 32 bits wide.                                              *)
(***************************************************************************)
LimbBase == 2^27

Geq2(a, b) == a.hi > b.hi \/ (a.hi = b.hi /\ a.lo >= b.lo)

Sub2(a, b) ==
    IF a.lo >= b.lo
    THEN [hi |-> a.hi - b.hi, lo |-> a.lo - b.lo]
    ELSE [hi |-> a.hi - b.hi - 1, lo |-> a.lo + LimbBase - b.lo]

Dbl2(a) == [hi |-> 2 * a.hi + (2 * a.lo) \div LimbBase, lo |-> (2 * a.lo) % LimbBase]

Half2(a) == [hi |-> a.hi \div 2, lo |-> (a.hi % 2) * (LimbBase \div 2) + a.lo \div 2]

Inc2(a) ==
    IF a.lo + 1 = LimbBase THEN [hi |-> a.hi + 1, lo |-> 0] ELSE [hi |-> a.hi, lo |-> a.lo + 1]

RoundFloat(m, guard, sticky, ex) ==
    LET up == guard = 1 /\ (sticky \/ m.lo % 2 = 1)
        m1 == IF up THEN Inc2(m) ELSE m
    IN  IF m1.hi = LimbBase \div 2
        THEN [hi |-> LimbBase \div 4, lo |-> 0, ex |-> ex + 1]
        ELSE [hi |-> m1.hi, lo |-> m1.lo, ex |-> ex]

DivStep(r, q, d) ==
    LET r2 == Dbl2(r)
        q2 == Dbl2(q)
    IN  IF Geq2(r2, d) THEN [r |-> Sub2(r2, d), q |-> [q2 EXCEPT !.lo = @ + 1]]
                       ELSE [r |-> r2, q |-> q2]

RECURSIVE DivBits(_, _, _, _)
DivBits(r, q, d, n) ==
    IF n = 0 THEN [q |-> q, r |-> r]
    ELSE LET st == DivStep(r, q, d)
         IN  IF st.q.hi >= 0 THEN DivBits(st.r, st.q, d, n - 1) ELSE st

FloatDiv(a, b) ==
    LET ma == [hi |-> a.hi, lo |-> a.lo]
        mb == [hi |-> b.hi, lo |-> b.lo]
        big == Geq2(ma, mb)
        d == IF big THEN DivBits(Sub2(ma, mb), [hi |-> 0, lo |-> 1], mb, 53)
                    ELSE DivBits(ma, [hi |-> 0, lo |-> 0], mb, 54)
    IN  RoundFloat(Half2(d.q), d.q.lo % 2, d.r.hi # 0 \/ d.r.lo # 0,
                   a.ex - b.ex - 52 - (IF big THEN 0 ELSE 1))

RECURSIVE NormUp(_, _)
NormUp(h, e) == IF h >= LimbBase \div 4 THEN [hi |-> h, lo |-> 0, ex |-> e] ELSE NormUp(2 * h, e - 1)

FloatOfInt(n) == IF n = 0 THEN [hi |-> 0, lo |-> 0, ex |-> 0] ELSE NormUp(n, -27)

RECURSIVE NormDown(_, _, _, _)
NormDown(p, ex, guard, sticky) ==
    IF p.hi < LimbBase \div 2 THEN RoundFloat(p, guard, sticky, ex)
    ELSE NormDown(Half2(p), ex + 1, p.lo % 2, sticky \/ guard = 1)

FloatMulInt(k, f) ==
    IF k = 0 THEN FloatOfInt(0)
    ELSE NormDown([hi |-> k * f.hi + (k * f.lo) \div LimbBase, lo |-> (k * f.lo) % LimbBase],
                  f.ex, 0, FALSE)

\* floor(2 * f): the whole half milliseconds in f milliseconds.  For an
\* integer t, t / 2 > f exactly when t > FloorHalfMs(f).
FloorHalfMs(f) ==
    LET s == 0 - (f.ex + 1) - 27
    IN  IF f.hi = 0 THEN 0
        ELSE IF s > 30 THEN 0
        ELSE IF s >= 0 THEN f.hi \div (2^s)
        ELSE f.hi * (2^(0 - s)) + f.lo \div (2^(27 + s))

(***************************************************************************)
(* State.                                                                  *)
(***************************************************************************)
VARIABLES
    loops,       \* the Loop objects constructed so far, by identity
    nloops,      \* how many Loop objects have been constructed
    loop_list,   \* LoopManager._loop_list: identities, in registration order
    pc,          \* "idle", or "updating" while LoopManager.update runs
    it,          \* index of the list iterator of the for statement in update
    dt,          \* the dt argument of the running update call
    outcome,     \* how the running or last LoopManager call ended
    fired,       \* history: per loop, the indices passed to Loop.callback
    invoked,     \* history: per loop, how often the user's callback ran
    given,       \* history: per delay loop, the sum of the dt it was updated with
    upd,         \* history: per loop, Loop.update calls in the running pass
    start_list   \* history: _loop_list when the running pass started

lvars == <<loops, nloops, loop_list, pc, it, dt, outcome, fired, invoked, given, upd,
           start_list>>

LoopIds == 1..MaxLoops

Thousand == FloatOfInt(1000)

\* 1000 / delay_ms of LoopManager.delay, computed once.
DelayFps == [d \in DelaySet |-> FloatDiv(Thousand, FloatOfInt(d))]

\* The fps values a Loop is constructed with: the fps arguments of loop and
\* once, and delay's 1000 / delay_ms.
FpsValues == {FloatOfInt(f) : f \in FpsSet} \cup {DelayFps[d] : d \in DelaySet}

\* 1000 / fps for each of them, computed once.
EachCountTime == [f \in FpsValues |-> FloatDiv(Thousand, f)]

\* __init__ starting the count at 0 instead of -1.
LoopInitAtZero(fps, count_per_period, reg, cb, delay_ms) ==
    [fps |-> fps,
     count_per_period |-> count_per_period,
     each_count_time |-> EachCountTime[fps],
     elapsed_time |-> 0,
     current_count |-> 0,
     paused |-> FALSE,
     reg |-> reg,
     cb |-> cb,
     delay_ms |-> delay_ms]

\* Loop.__init__; reg, cb and delay_ms describe the callable stored in
\* self.callback: which LoopManager method built it ("bare": none, the host
\* constructed the Loop itself), what the user's callback does, and the
\* delay_ms its closure holds.
LoopInit(fps, count_per_period, reg, cb, delay_ms) ==
    [fps |-> fps,
     count_per_period |-> count_per_period,
     each_count_time |-> EachCountTime[fps],
     elapsed_time |-> 0,
     current_count |-> -1,
     paused |-> FALSE,
     reg |-> reg,
     cb |-> cb,
     delay_ms |-> delay_ms]

\* The value of a slot of loops that holds no Loop object yet.
NoLoop ==
    [fps |-> FloatOfInt(0), count_per_period |-> 0, each_count_time |-> FloatOfInt(0),
     elapsed_time |-> 0, current_count |-> -1, paused |-> FALSE,
     reg |-> "none", cb |-> "none", delay_ms |-> 0]

\* x in s, for a Python list s.
InList(s, x) == \E i \in 1..Len(s) : s[i] = x

\* remove taking out the head of the list, whichever element is named.
ListRemoveHead(s, x) == Tail(s)

\* s.remove(x) on a list s that holds x: the first occurrence goes, the
\* rest keep their order.
ListRemove(s, x) ==
    LET i == CHOOSE k \in 1..Len(s) : s[k] = x /\ \A j \in 1..(k - 1) : s[j] # x
    IN  SubSeq(s, 1, i - 1) \o SubSeq(s, i + 1, Len(s))

(***************************************************************************)
(* The methods, as functions of the "world" w: the part of the state a     *)
(* callback can change.  w.full says that a registration found MaxLoops    *)
(* Loop objects constructed already: such a step is outside the model.     *)
(***************************************************************************)
World ==
    [loops |-> loops, nloops |-> nloops, loop_list |-> loop_list, outcome |-> "returned",
     fired |-> fired, invoked |-> invoked, given |-> given, upd |-> upd, full |-> FALSE]

\* loop = Loop(...): a new object.
Construct(w, rec) ==
    IF w.nloops >= MaxLoops THEN [w EXCEPT !.full = TRUE]
    ELSE [w EXCEPT !.nloops = @ + 1, !.loops[w.nloops + 1] = rec]

\* loop = Loop(...); self._loop_list.append(loop)
Register(w, rec) ==
    LET w1 == Construct(w, rec)
    IN  IF w1.full THEN w1 ELSE [w1 EXCEPT !.loop_list = Append(@, w1.nloops)]

\* LoopManager.loop
ManagerLoop(w, fps, count_per_period, cb) ==
    Register(w, LoopInit(fps, count_per_period, "loop", cb, 0))

\* LoopManager.once; reg is "delay" when the callback is delay's delay_func.
ManagerOnce(w, fps, count_per_period, reg, cb, delay_ms) ==
    Register(w, LoopInit(fps, count_per_period, reg, cb, delay_ms))

\* LoopManager.delay
ManagerDelay(w, delay_ms, cb) ==
    ManagerOnce(w, DelayFps[delay_ms], 2, "delay", cb, delay_ms)

\* self._loop_list.remove(loop): ValueError when the loop is not in the list.
RemoveFromList(w, l) ==
    IF InList(w.loop_list, l) THEN [w EXCEPT !.loop_list = ListRemove(@, l)]
    ELSE [w EXCEPT !.outcome = "ValueError"]

\* LoopManager.remove without its membership test.
ManagerRemoveUnguarded(w, l) == RemoveFromList(w, l)

\* LoopManager.remove
ManagerRemove(w, l) == IF InList(w.loop_list, l) THEN RemoveFromList(w, l) ELSE w

\* The user's callback of loop l.  "remove_other" removes the loop t;
\* "register" issues the registration that created l once more, with the
\* same callback.
UserCallback(w, l, t) ==
    LET r == w.loops[l]
        w1 == [w EXCEPT !.invoked[l] = @ + 1]
    IN  CASE r.cb = "remove_self" -> ManagerRemove(w1, l)
          [] r.cb = "remove_other" -> ManagerRemove(w1, t)
          [] r.cb = "register" ->
                IF r.reg = "delay" THEN ManagerDelay(w1, r.delay_ms, r.cb)
                ELSE IF r.reg = "once"
                THEN ManagerOnce(w1, r.fps, r.count_per_period, "once", r.cb, 0)
                ELSE ManagerLoop(w1, r.fps, r.count_per_period, r.cb)
          [] OTHER -> w1

\* delay_func firing at the first count instead of the second.
DelayFuncAtZero(w, l, index, t) == IF index = 0 THEN UserCallback(w, l, t) ELSE w

\* delay_func of LoopManager.delay
DelayFunc(w, l, index, t) == IF index = 1 THEN UserCallback(w, l, t) ELSE w

\* func of once comparing the index with count_per_period itself.
OnceFuncOffByOne(w, l, index, t) ==
    LET w1 == IF w.loops[l].reg = "delay" THEN DelayFunc(w, l, index, t)
              ELSE UserCallback(w, l, t)
    IN  IF index = w.loops[l].count_per_period THEN RemoveFromList(w1, l) ELSE w1

\* func of LoopManager.once: the callback, then the loop's removal at the
\* last index.
OnceFunc(w, l, index, t) ==
    LET w1 == IF w.loops[l].reg = "delay" THEN DelayFunc(w, l, index, t)
              ELSE UserCallback(w, l, t)
    IN  IF index = w.loops[l].count_per_period - 1 THEN RemoveFromList(w1, l) ELSE w1

\* self.callback(index) of loop l
LoopCallback(w, l, index, t) ==
    LET w1 == [w EXCEPT !.fired[l] = Append(@, index)]
    IN  IF w.loops[l].reg \in {"once", "delay"} THEN OnceFunc(w1, l, index, t)
        ELSE UserCallback(w1, l, t)

\* reset going back to the state before the first count.
LoopResetToIdle(r) == [r EXCEPT !.elapsed_time = 0, !.current_count = -1]

\* reset keeping the elapsed time.
LoopResetKeepsTime(r) == [r EXCEPT !.current_count = 0]

\* Loop.reset
LoopReset(r) == [r EXCEPT !.elapsed_time = 0, !.current_count = 0]

\* elapsed_time > (current_count + 1) * each_count_time
Crossed(r) ==
    r.elapsed_time > FloorHalfMs(FloatMulInt(r.current_count + 1, r.each_count_time))

\* Loop.update catching up: it fires a second time when the elapsed time has
\* crossed the next boundary as well.
LoopUpdateCatchUp(w, l, d, t) ==
    LET Fire(wf) ==
            LET r2 == [wf.loops[l] EXCEPT !.current_count = @ + 1]
                r3 == IF r2.current_count >= r2.count_per_period THEN LoopReset(r2) ELSE r2
            IN  LoopCallback([wf EXCEPT !.loops[l] = r3], l, r3.current_count, t)
        r1 == [w.loops[l] EXCEPT !.elapsed_time = @ + d]
        w1 == [w EXCEPT !.upd[l] = @ + 1,
                        !.given[l] = IF r1.reg = "delay" THEN @ + d ELSE @,
                        !.loops[l] = r1]
    IN  IF Crossed(r1)
        THEN LET w2 == Fire(w1)
             IN  IF Crossed(w2.loops[l]) THEN Fire(w2) ELSE w2
        ELSE w1

\* Loop.update resetting only when the count has passed count_per_period.
LoopUpdateLateReset(w, l, d, t) ==
    LET r1 == [w.loops[l] EXCEPT !.elapsed_time = @ + d]
        w1 == [w EXCEPT !.upd[l] = @ + 1,
                        !.given[l] = IF r1.reg = "delay" THEN @ + d ELSE @]
    IN  IF Crossed(r1)
        THEN LET r2 == [r1 EXCEPT !.current_count = @ + 1]
                 r3 == IF r2.current_count > r2.count_per_period THEN LoopReset(r2) ELSE r2
             IN  LoopCallback([w1 EXCEPT !.loops[l] = r3], l, r3.current_count, t)
        ELSE [w1 EXCEPT !.loops[l] = r1]

\* Loop.update
LoopUpdate(w, l, d, t) ==
    LET r1 == [w.loops[l] EXCEPT !.elapsed_time = @ + d]
        w1 == [w EXCEPT !.upd[l] = @ + 1,
                        !.given[l] = IF r1.reg = "delay" THEN @ + d ELSE @]
    IN  IF Crossed(r1)
        THEN LET r2 == [r1 EXCEPT !.current_count = @ + 1]
                 r3 == IF r2.current_count >= r2.count_per_period THEN LoopReset(r2) ELSE r2
             IN  LoopCallback([w1 EXCEPT !.loops[l] = r3], l, r3.current_count, t)
        ELSE [w1 EXCEPT !.loops[l] = r1]

\* update ignoring the paused flag.
SkippedNever(l) == FALSE

\* update with the test of the paused flag inverted.
SkippedInverted(l) == ~loops[l].paused

\* if not loop.paused, in LoopManager.update
Skipped(l) == loops[l].paused

\* The loops a "remove_other" callback of loop l may name.
Targets(l) ==
    IF loops[l].cb = "remove_other" /\ (1..nloops) \ {l} # {}
    THEN (1..nloops) \ {l} ELSE {0}

(***************************************************************************)
(* EventManager state.                                                     *)
(***************************************************************************)
VARIABLES
    listeners,           \* the EventListener objects constructed so far
    nlisteners,          \* how many EventListener objects have been constructed
    event_listener_map,  \* EventManager._event_listener_map: type -> list
    epc,                 \* "idle", or "triggering" while EventManager.trigger runs
    eit,                 \* index of the list iterator of the for statement in trigger
    etype,               \* event_type of the running trigger call
    ecalled,             \* history: the listeners the running call has invoked
    estart               \* history: _event_listener_map when the running call started

evars == <<listeners, nlisteners, event_listener_map, epc, eit, etype, ecalled, estart>>

ListenerIds == 1..MaxListeners

\* What a listener's callback does: nothing, or EventManager.on for the
\* type of its own listener, or for the other type.
ListenerCallbackSet == {"none", "on_same", "on_other"}

\* The event arguments of trigger: an int (the type itself), or an Event
\* object carrying the type in its field type.
EventSet ==
    {[is_int |-> TRUE, int |-> ty, type |-> 0] : ty \in TypeSet}
        \cup {[is_int |-> FALSE, int |-> 0, type |-> ty] : ty \in TypeSet}

\* The value of a slot of listeners that holds no EventListener yet.
NoListener == [event_type |-> 0, callback |-> "none"]

\* EventListener.__init__
ListenerInit(event_type, callback) == [event_type |-> event_type, callback |-> callback]

\* The part of the state a listener's callback can change; full as for loops.
EventWorld ==
    [listeners |-> listeners, nlisteners |-> nlisteners, map |-> event_listener_map,
     full |-> FALSE]

\* on putting the new listener at the head of the list.
ManagerOnPrepend(e, event_type, callback) ==
    IF e.nlisteners >= MaxListeners THEN [e EXCEPT !.full = TRUE]
    ELSE LET m == IF event_type \notin DOMAIN e.map
                  THEN e.map @@ (event_type :> <<>>) ELSE e.map
         IN  [e EXCEPT !.nlisteners = @ + 1,
                       !.listeners[e.nlisteners + 1] = ListenerInit(event_type, callback),
                       !.map = [m EXCEPT ![event_type] = <<e.nlisteners + 1>> \o @]]

\* EventManager.on
ManagerOn(e, event_type, callback) ==
    IF e.nlisteners >= MaxListeners THEN [e EXCEPT !.full = TRUE]
    ELSE LET m == IF event_type \notin DOMAIN e.map
                  THEN e.map @@ (event_type :> <<>>) ELSE e.map
         IN  [e EXCEPT !.nlisteners = @ + 1,
                       !.listeners[e.nlisteners + 1] = ListenerInit(event_type, callback),
                       !.map = [m EXCEPT ![event_type] = Append(@, e.nlisteners + 1)]]

\* EventListener.invoke: the listener's callback runs.
ListenerInvoke(e, i) ==
    LET r == e.listeners[i]
    IN  CASE r.callback = "on_same" -> ManagerOn(e, r.event_type, "none")
          [] r.callback = "on_other" ->
                ManagerOn(e, CHOOSE ty \in TypeSet : ty # r.event_type, "none")
          [] OTHER -> e

\* event if isinstance(event, int) else event.type
EventType(event) == IF event.is_int THEN event.int ELSE event.type

\* self._event_listener_map.get(event_type): None when the key is absent,
\* here the empty list, which the for statement treats alike.
MapGet(m, event_type) == IF event_type \in DOMAIN m THEN m[event_type] ELSE <<>>

(***************************************************************************)
(* Grid and Grid.Iterator (common.py).  A cell is None (0) or a value; a   *)
(* position is a 0-based offset into the list _cells.                      *)
(***************************************************************************)
VARIABLES
    grid_size,   \* Grid.size as [width, height]; [0, 0] before construction
    cells,       \* Grid._cells
    g_access,    \* the last access: [kind, col, row, index, pos, outcome]
    iter,        \* the Grid.Iterator: its ranges and its current row, column
    yielded,     \* the positions of the cells the iterator has returned
    it_outcome   \* how the last __next__ ended

gvars == <<grid_size, cells, g_access, iter, yielded, it_outcome>>

\* Size(width, height) for the grids constructed.
SizeSet == {[width |-> w, height |-> h] : w \in 1..MaxWidth, h \in 1..MaxHeight}

\* The cell values written; 0 is None.
CellSet == {1}

\* [None] * size.width * size.height, then fill(cell) unless cell is None
GridInit(size, cell) == [i \in 1..(size.width * size.height) |-> cell]

\* Grid.get_index
GetIndex(size, col, row) == row * size.width + col

\* The position list[i] denotes in a list of n elements: Python counts a
\* negative index from the end; -1 stands for IndexError.
ListPos(n, i) ==
    IF 0 <= i /\ i < n THEN i
    ELSE IF -n <= i /\ i < 0 THEN n + i
    ELSE -1

NoAccess == [kind |-> "none", col |-> 0, row |-> 0, index |-> 0, pos |-> -1,
             outcome |-> "none"]

\* self._cells[index], read: the access as it ends.
ListRead(kind, col, row, index) ==
    LET pos == ListPos(Len(cells), index)
    IN  [kind |-> kind, col |-> col, row |-> row, index |-> index, pos |-> pos,
         outcome |-> IF pos = -1 THEN "IndexError" ELSE "returned"]

\* self._cells[index] = cell: the list after the statement.
ListWrite(index, cell) ==
    LET pos == ListPos(Len(cells), index)
    IN  IF pos = -1 THEN cells ELSE [cells EXCEPT ![pos + 1] = cell]

NoIter == [row_start |-> 0, row_end |-> 0, col_start |-> 0, col_end |-> 0,
           current_row |-> 0, current_col |-> 0]

\* Grid.Iterator.__init__
IterInit(row_range, col_range) ==
    [row_start |-> row_range[1], row_end |-> row_range[2],
     col_start |-> col_range[1], col_end |-> col_range[2],
     current_row |-> row_range[1], current_col |-> col_range[1]]

\* Grid.Iterator.__next__, after the cell has been read.
IterAdvance(r) ==
    LET c == r.current_col + 1
    IN  IF c >= r.col_end
        THEN [r EXCEPT !.current_col = r.col_start, !.current_row = @ + 1]
        ELSE [r EXCEPT !.current_col = c]

(***************************************************************************)
(* CoordinateSet (common.py).  A coordinate is <<col, row>>.               *)
(***************************************************************************)
VARIABLES
    coordinate_set,   \* CoordinateSet._coordinate_set
    cs_rect,          \* the rectangle the set was made from by from_rect
    cs_outcome        \* how the last add or remove ended

cvars == <<coordinate_set, cs_rect, cs_outcome>>

vars == <<lvars, evars, gvars, cvars>>

\* The coordinates of the calls.
CoordRange == -1..2
Coordinates == CoordRange \X CoordRange

\* pygame.Rect(x, y, width, height) for from_rect.
RectSet == {[from_rect |-> TRUE, x |-> x, y |-> y, width |-> w, height |-> h] :
               x \in {-1, 0, 1}, y \in {-1, 0, 1}, w \in -1..2, h \in -1..2}

\* No rectangle: the set was not made by from_rect, or was changed since.
NoRect == [from_rect |-> FALSE, x |-> 0, y |-> 0, width |-> 0, height |-> 0]

\* CoordinateSet.add
SetAdd(s, coordinate) == s \cup {coordinate}

\* CoordinateSet.has
Has(s, coordinate) == coordinate \in s

\* remove that discards: no error for an absent coordinate.
SetRemoveDiscard(s, coordinate) == [set |-> s \ {coordinate}, outcome |-> "returned"]

\* CoordinateSet.remove: set.remove raises KeyError for an absent element.
SetRemove(s, coordinate) ==
    IF coordinate \in s THEN [set |-> s \ {coordinate}, outcome |-> "returned"]
    ELSE [set |-> s, outcome |-> "KeyError"]

\* CoordinateSet.all
All(s) == s

\* The inner for statement with the stop column included.
RECURSIVE RectColsInclusive(_, _, _, _)
RectColsInclusive(s, col, stop, row) ==
    IF col > stop THEN s
    ELSE RectColsInclusive(SetAdd(s, <<col, row>>), col + 1, stop, row)

\* for col in range(col, stop): coordinate_set.add((col, row))
RECURSIVE RectCols(_, _, _, _)
RectCols(s, col, stop, row) ==
    IF col >= stop THEN s ELSE RectCols(SetAdd(s, <<col, row>>), col + 1, stop, row)

\* for row in range(row, stop): the inner for statement
RECURSIVE RectRows(_, _, _, _)
RectRows(s, row, stop, rect) ==
    IF row >= stop THEN s
    ELSE RectRows(RectCols(s, rect.x, rect.x + rect.width, row), row + 1, stop, rect)

\* CoordinateSet.from_rect
FromRect(rect) == RectRows({}, rect.y, rect.y + rect.height, rect)

(***************************************************************************)
(* Actions.                                                                *)
(***************************************************************************)
Init ==
    /\ loops = [l \in LoopIds |-> NoLoop]
    /\ nloops = 0
    /\ loop_list = <<>>
    /\ pc = "idle"
    /\ it = 0
    /\ dt = 0
    /\ outcome = "returned"
    /\ fired = [l \in LoopIds |-> <<>>]
    /\ invoked = [l \in LoopIds |-> 0]
    /\ given = [l \in LoopIds |-> 0]
    /\ upd = [l \in LoopIds |-> 0]
    /\ start_list = <<>>
    /\ listeners = [i \in ListenerIds |-> NoListener]
    /\ nlisteners = 0
    /\ event_listener_map = <<>>
    /\ epc = "idle"
    /\ eit = 0
    /\ etype = 0
    /\ ecalled = <<>>
    /\ estart = <<>>
    /\ grid_size = [width |-> 0, height |-> 0]
    /\ cells = <<>>
    /\ g_access = NoAccess
    /\ iter = NoIter
    /\ yielded = <<>>
    /\ it_outcome = "none"
    /\ coordinate_set = {}
    /\ cs_rect = NoRect
    /\ cs_outcome = "none"

\* The world w becomes the state.
Commit(w) ==
    /\ ~w.full
    /\ loops' = w.loops
    /\ nloops' = w.nloops
    /\ loop_list' = w.loop_list
    /\ outcome' = w.outcome
    /\ fired' = w.fired
    /\ invoked' = w.invoked
    /\ given' = w.given
    /\ upd' = w.upd

\* The host calls LoopManager.loop.
CallLoop(Fps, Counts, Cbs, cap) ==
    /\ pc = "idle"
    /\ nloops < cap
    /\ \E fps \in Fps, n \in Counts, cb \in Cbs :
          Commit(ManagerLoop(World, FloatOfInt(fps), n, cb))
    /\ UNCHANGED <<pc, it, dt, start_list, evars, gvars, cvars>>

\* The host calls LoopManager.once.
CallOnce(Fps, Counts, Cbs, cap) ==
    /\ pc = "idle"
    /\ nloops < cap
    /\ \E fps \in Fps, n \in Counts, cb \in Cbs :
          Commit(ManagerOnce(World, FloatOfInt(fps), n, "once", cb, 0))
    /\ UNCHANGED <<pc, it, dt, start_list, evars, gvars, cvars>>

\* The host calls LoopManager.delay.
CallDelay(Delays, Cbs, cap) ==
    /\ pc = "idle"
    /\ nloops < cap
    /\ \E d \in Delays, cb \in Cbs : Commit(ManagerDelay(World, d, cb))
    /\ UNCHANGED <<pc, it, dt, start_list, evars, gvars, cvars>>

\* The host constructs a Loop itself and registers it nowhere.
NewLoop(Fps, Counts) ==
    /\ pc = "idle"
    /\ \E fps \in Fps, n \in Counts :
          Commit(Construct(World, LoopInit(FloatOfInt(fps), n, "bare", "none", 0)))
    /\ UNCHANGED <<pc, it, dt, start_list, evars, gvars, cvars>>

\* The host calls LoopManager.remove(l) with a loop it holds.
CallRemoveOf(l) ==
    /\ pc = "idle"
    /\ Commit(ManagerRemove(World, l))
    /\ UNCHANGED <<pc, it, dt, start_list, evars, gvars, cvars>>

CallRemove == \E l \in 1..nloops : CallRemoveOf(l)

\* The host sets loop.paused.
SetPaused ==
    /\ pc = "idle"
    /\ \E l \in 1..nloops : loops' = [loops EXCEPT ![l].paused = ~@]
    /\ UNCHANGED <<nloops, loop_list, pc, it, dt, outcome, fired, invoked, given, upd,
                   start_list, evars, gvars, cvars>>

\* The host calls loop.reset() on a loop it holds.
CallResetOf(l) ==
    /\ pc = "idle"
    /\ loops' = [loops EXCEPT ![l] = LoopReset(@)]
    /\ UNCHANGED <<nloops, loop_list, pc, it, dt, outcome, fired, invoked, given, upd,
                   start_list, evars, gvars, cvars>>

CallReset == \E l \in 1..nloops : CallResetOf(l)

\* The host calls loop.update(dt) itself, on a loop no manager holds.
CallLoopUpdate(Dts) ==
    /\ pc = "idle"
    /\ \E l \in 1..nloops, d \in Dts :
          /\ loops[l].reg = "bare"
          /\ Len(fired[l]) < MaxFired
          /\ Commit([LoopUpdate(World, l, d, l) EXCEPT !.upd = upd])
    /\ UNCHANGED <<pc, it, dt, start_list, evars, gvars, cvars>>

\* The host calls LoopManager.update: the for statement takes an iterator.
UpdateBegin(Dts) ==
    /\ pc = "idle"
    /\ \A l \in LoopIds : Len(fired[l]) < MaxFired
    /\ \E d \in Dts : dt' = d
    /\ pc' = "updating"
    /\ it' = 0
    /\ outcome' = "returned"
    /\ upd' = [l \in LoopIds |-> 0]
    /\ start_list' = loop_list
    /\ UNCHANGED <<loops, nloops, loop_list, fired, invoked, given, evars, gvars, cvars>>

\* One iteration of the for statement: the iterator yields
\* _loop_list[it] and advances; the body runs with every callback it makes.
\* An exception ends the call.
UpdateStep ==
    /\ pc = "updating"
    /\ it < Len(loop_list)
    /\ LET l == loop_list[it + 1]
       IN  IF Skipped(l)
           THEN /\ it' = it + 1
                /\ UNCHANGED <<loops, nloops, loop_list, pc, dt, outcome, fired, invoked,
                               given, upd, start_list>>
           ELSE \E t \in Targets(l) :
                   LET w == LoopUpdate([World EXCEPT !.outcome = outcome], l, dt, t)
                   IN  /\ Commit(w)
                       /\ IF w.outcome = "ValueError"
                          THEN pc' = "idle" /\ it' = 0 /\ dt' = 0 /\ start_list' = <<>>
                          ELSE pc' = "updating" /\ it' = it + 1
                               /\ UNCHANGED <<dt, start_list>>
    /\ UNCHANGED <<evars, gvars, cvars>>

\* The iterator is exhausted: update returns.
UpdateEnd ==
    /\ pc = "updating"
    /\ it >= Len(loop_list)
    /\ pc' = "idle"
    /\ it' = 0
    /\ dt' = 0
    /\ upd' = [l \in LoopIds |-> 0]
    /\ start_list' = <<>>
    /\ UNCHANGED <<loops, nloops, loop_list, outcome, fired, invoked, given, evars, gvars, cvars>>

\* The host calls EventManager.on.
CallOn ==
    /\ epc = "idle"
    /\ \E ty \in TypeSet, cb \in ListenerCallbackSet :
          LET e == ManagerOn(EventWorld, ty, cb)
          IN  /\ ~e.full
              /\ listeners' = e.listeners
              /\ nlisteners' = e.nlisteners
              /\ event_listener_map' = e.map
    /\ UNCHANGED <<epc, eit, etype, ecalled, estart, lvars, gvars, cvars>>

\* The host calls EventManager.trigger: the type is resolved, the list is
\* looked up and the for statement takes an iterator.
TriggerBegin ==
    /\ epc = "idle"
    /\ \E event \in EventSet : etype' = EventType(event)
    /\ epc' = "triggering"
    /\ eit' = 0
    /\ ecalled' = <<>>
    /\ estart' = event_listener_map
    /\ UNCHANGED <<listeners, nlisteners, event_listener_map, lvars, gvars, cvars>>

\* One iteration of the for statement in trigger: the iterator yields the
\* next listener of the list and the listener is invoked.
TriggerStep ==
    /\ epc = "triggering"
    /\ eit < Len(MapGet(event_listener_map, etype))
    /\ LET i == event_listener_map[etype][eit + 1]
           e == ListenerInvoke(EventWorld, i)
       IN  /\ ~e.full
           /\ listeners' = e.listeners
           /\ nlisteners' = e.nlisteners
           /\ event_listener_map' = e.map
           /\ ecalled' = Append(ecalled, i)
    /\ eit' = eit + 1
    /\ UNCHANGED <<epc, etype, estart, lvars, gvars, cvars>>

\* No list or an exhausted iterator: trigger returns.
TriggerEnd ==
    /\ epc = "triggering"
    /\ eit >= Len(MapGet(event_listener_map, etype))
    /\ epc' = "idle"
    /\ eit' = 0
    /\ etype' = 0
    /\ ecalled' = <<>>
    /\ estart' = <<>>
    /\ UNCHANGED <<listeners, nlisteners, event_listener_map, lvars, gvars, cvars>>

\* The host constructs Grid(size, cell).
CallGridNew ==
    /\ grid_size.width = 0
    /\ \E size \in SizeSet, cell \in CellSet \cup {0} :
          /\ grid_size' = size
          /\ cells' = GridInit(size, cell)
    /\ UNCHANGED <<g_access, iter, yielded, it_outcome, lvars, evars, cvars>>

\* The host calls Grid.get((col, row)).
CallGet ==
    /\ grid_size.width > 0
    /\ \E col \in -1..grid_size.width, row \in -1..grid_size.height :
          g_access' = ListRead("get", col, row, GetIndex(grid_size, col, row))
    /\ UNCHANGED <<grid_size, cells, iter, yielded, it_outcome, lvars, evars, cvars>>

\* The host calls Grid.set((col, row), cell).
CallSet ==
    /\ grid_size.width > 0
    /\ \E col \in -1..grid_size.width, row \in -1..grid_size.height, cell \in CellSet :
          /\ g_access' = ListRead("set", col, row, GetIndex(grid_size, col, row))
          /\ cells' = ListWrite(GetIndex(grid_size, col, row), cell)
    /\ UNCHANGED <<grid_size, iter, yielded, it_outcome, lvars, evars, cvars>>

\* The host evaluates grid[index].
CallGetItem ==
    /\ grid_size.width > 0
    /\ \E index \in (-Len(cells) - 1)..Len(cells) :
          g_access' = ListRead("getitem", 0, 0, index)
    /\ UNCHANGED <<grid_size, cells, iter, yielded, it_outcome, lvars, evars, cvars>>

\* The host executes grid[index] = cell.
CallSetItem ==
    /\ grid_size.width > 0
    /\ \E index \in (-Len(cells) - 1)..Len(cells), cell \in CellSet :
          /\ g_access' = ListRead("setitem", 0, 0, index)
          /\ cells' = ListWrite(index, cell)
    /\ UNCHANGED <<grid_size, iter, yielded, it_outcome, lvars, evars, cvars>>

\* The host calls Grid.get_iterator(row_range, col_range) with ranges
\* inside the grid.
CallGetIterator ==
    /\ grid_size.width > 0
    /\ \E rs \in 0..grid_size.height, re \in 0..grid_size.height,
          cs \in 0..grid_size.width, ce \in 0..grid_size.width :
          iter' = IterInit(<<rs, re>>, <<cs, ce>>)
    /\ yielded' = <<>>
    /\ it_outcome' = "new"
    /\ UNCHANGED <<grid_size, cells, g_access, lvars, evars, cvars>>

\* The host calls next(iterator).
CallNext ==
    /\ it_outcome # "none"
    /\ IF iter.current_row >= iter.row_end
       THEN /\ it_outcome' = "StopIteration"
            /\ UNCHANGED <<iter, yielded>>
       ELSE LET pos == ListPos(Len(cells),
                               GetIndex(grid_size, iter.current_col, iter.current_row))
            IN  IF pos = -1
                THEN /\ it_outcome' = "IndexError"
                     /\ UNCHANGED <<iter, yielded>>
                ELSE /\ it_outcome' = "returned"
                     /\ yielded' = Append(yielded, pos)
                     /\ iter' = IterAdvance(iter)
    /\ UNCHANGED <<grid_size, cells, g_access, lvars, evars, cvars>>

\* The host makes its CoordinateSet by CoordinateSet.from_rect(rect).
CallFromRect ==
    /\ cs_outcome = "none"
    /\ \E rect \in RectSet :
          /\ coordinate_set' = FromRect(rect)
          /\ cs_rect' = rect
    /\ cs_outcome' = "returned"
    /\ UNCHANGED <<lvars, evars, gvars>>

\* The host calls CoordinateSet.add(c).
CallAddOf(c) ==
    /\ c \in coordinate_set \/ Cardinality(coordinate_set) < MaxCoordinates
    /\ coordinate_set' = SetAdd(coordinate_set, c)
    /\ cs_rect' = NoRect
    /\ cs_outcome' = "returned"
    /\ UNCHANGED <<lvars, evars, gvars>>

CallAdd == \E c \in Coordinates : CallAddOf(c)

\* The host calls CoordinateSet.remove(c).
CallSetRemoveOf(c) ==
    /\ coordinate_set' = SetRemove(coordinate_set, c).set
    /\ cs_outcome' = SetRemove(coordinate_set, c).outcome
    /\ cs_rect' = NoRect
    /\ UNCHANGED <<lvars, evars, gvars>>

CallSetRemove == \E c \in Coordinates : CallSetRemoveOf(c)

(***************************************************************************)
(* Specifications: the scheduler with callbacks that do nothing, with      *)
(* pausing, with callbacks and a host that remove loops, with callbacks    *)
(* that register loops, and the event dispatcher.                          *)
(***************************************************************************)
Next ==
    \/ CallLoop(FpsSet, {3}, {"none"}, MaxPlain)
    \/ CallOnce(FpsSet, {1, 3}, {"none"}, MaxPlain)
    \/ CallDelay(DelaySet, {"none"}, MaxPlain)
    \/ UpdateBegin(DtSet)
    \/ UpdateStep
    \/ UpdateEnd

Spec == Init /\ [][Next]_vars

PauseNext ==
    \/ CallLoop({1000}, {3}, {"none"}, MaxPlain)
    \/ CallOnce({1000}, {1, 3}, {"none"}, MaxPlain)
    \/ CallDelay({2}, {"none"}, MaxPlain)
    \/ SetPaused
    \/ UpdateBegin({0, 3})
    \/ UpdateStep
    \/ UpdateEnd

PauseSpec == Init /\ [][PauseNext]_vars

RemoveNext ==
    \/ CallLoop({1000}, {3}, {"none"}, MaxLoops)
    \/ CallOnce({1000}, {1}, {"none"}, MaxLoops)
    \/ NewLoop({1000}, {3})
    \/ CallRemove
    \/ UpdateBegin({3})
    \/ UpdateStep
    \/ UpdateEnd

RemoveSpec == Init /\ [][RemoveNext]_vars

MutateNext ==
    \/ CallLoop({1000}, {2}, {"none", "remove_self", "remove_other"}, MaxLoops)
    \/ CallOnce({1000}, {1, 2}, {"none", "remove_self", "remove_other"}, MaxLoops)
    \/ CallRemove
    \/ UpdateBegin({0, 3})
    \/ UpdateStep
    \/ UpdateEnd

MutateSpec == Init /\ [][MutateNext]_vars

RegisterNext ==
    \/ CallLoop({1000}, {1, 3}, {"none", "register"}, MaxLoops)
    \/ CallOnce({1000}, {1, 3}, {"none", "register"}, MaxLoops)
    \/ CallDelay({2}, {"none", "register"}, MaxLoops)
    \/ UpdateBegin({0, 3})
    \/ UpdateStep
    \/ UpdateEnd

RegisterSpec == Init /\ [][RegisterNext]_vars

\* One Loop object, updated and reset by the host itself.
ResetNext ==
    \/ (nloops = 0 /\ NewLoop(FpsSet, {1, 3}))
    \/ CallLoopUpdate(DtSet)
    \/ CallReset

ResetSpec == Init /\ [][ResetNext]_vars

\* The host cancels loops between updates.
CancelNext ==
    \/ CallLoop({1000}, {3}, {"none"}, MaxLoops)
    \/ CallOnce({1000}, {3}, {"none"}, MaxLoops)
    \/ CallDelay({2}, {"none"}, MaxLoops)
    \/ CallRemove
    \/ UpdateBegin({3})
    \/ UpdateStep
    \/ UpdateEnd

CancelSpec == Init /\ [][CancelNext]_vars

\* once and delay loops under a host that calls update with dt > 0 again
\* and again; an update that has begun runs to its end.
LiveNext ==
    \/ CallOnce({1000}, {1, 3}, {"none"}, MaxPlain)
    \/ CallDelay(DelaySet, {"none"}, MaxPlain)
    \/ UpdateBegin({10})
    \/ UpdateStep
    \/ UpdateEnd

LiveSpec ==
    /\ Init
    /\ [][LiveNext]_vars
    /\ SF_vars(UpdateBegin({10}))
    /\ WF_vars(UpdateStep)
    /\ WF_vars(UpdateEnd)

EventNext ==
    \/ CallOn
    \/ TriggerBegin
    \/ TriggerStep
    \/ TriggerEnd

EventSpec == Init /\ [][EventNext]_vars

GridNext == CallGridNew \/ CallGet \/ CallSet \/ CallGetItem \/ CallSetItem

GridSpec == Init /\ [][GridNext]_vars

IteratorNext == CallGridNew \/ CallGetIterator \/ CallNext

IteratorSpec == Init /\ [][IteratorNext]_vars

CoordinateNext == CallFromRect \/ CallAdd \/ CallSetRemove

CoordinateSpec == Init /\ [][CoordinateNext]_vars

(***************************************************************************)
(* Properties of LoopManager.update under mutation of the list.            *)
(***************************************************************************)
\* The for statement of update has visited the whole list: update is
\* about to return.
PassDone == pc = "updating" /\ it >= Len(loop_list)

\* C1: when a callback removes its own loop or another registered loop
\* during an update call, every other loop that was registered when the call
\* started, is not paused and was not removed itself is updated exactly once
\* in that call: no loop is updated twice, and at the end of the pass none
\* has been left out.
C1_EveryLoopUpdatedOnce ==
    /\ \A l \in LoopIds : upd[l] <= 1
    /\ PassDone =>
          \A l \in LoopIds :
             (InList(start_list, l) /\ InList(loop_list, l) /\ ~loops[l].paused)
                => upd[l] = 1

\* C2: a callback that removes its own loop while update runs never makes
\* update raise, at whichever index the removal happens.
C2_SelfRemovalNeverRaises == outcome # "ValueError"

(***************************************************************************)
(* Properties of once and delay loops.                                     *)
(***************************************************************************)
\* <<0, 1, ..., n - 1>>
Indices(n) == [i \in 1..n |-> i - 1]

\* s is an initial segment of t.
IsPrefix(s, t) == Len(s) <= Len(t) /\ \A i \in 1..Len(s) : s[i] = t[i]

\* C3: a once loop with count_per_period >= 1 invokes its callback with the
\* indices 0, 1, ..., count_per_period - 1 in that order and never more; it
\* is in the manager's list exactly as long as the last of them has not been
\* passed, so it has left the list right after the invocation with index
\* count_per_period - 1.
C3_OnceFiresCountTimes ==
    \A l \in 1..nloops :
       loops[l].reg = "once" =>
          /\ IsPrefix(fired[l], Indices(loops[l].count_per_period))
          /\ invoked[l] = Len(fired[l])
          /\ InList(loop_list, l) <=> Len(fired[l]) < loops[l].count_per_period

\* A once loop of three counts has fired them all and is gone.
C3_Witness ==
    \E l \in 1..nloops :
       /\ loops[l].reg = "once"
       /\ fired[l] = <<0, 1, 2>>
       /\ ~InList(loop_list, l)

\* C4 as stated: the callback of a delay loop is invoked at most once, never
\* while the cumulative dt given to the loop is still <= delay_ms (given is
\* in half milliseconds), and once it has been invoked the loop is gone.
C4_DelayNeverBeforeDelayMs ==
    \A l \in 1..nloops :
       loops[l].reg = "delay" =>
          /\ invoked[l] <= 1
          /\ invoked[l] = 1 =>
                /\ given[l] > 2 * loops[l].delay_ms
                /\ ~InList(loop_list, l)

\* C4, amended: the callback of a delay loop is invoked at most once, never
\* while the cumulative dt given to the loop is still <= the loop's
\* each_count_time, the double 1000 / (1000 / delay_ms), and once it has
\* been invoked the loop is gone.
C4_DelayNeverBeforeCountTime ==
    \A l \in 1..nloops :
       loops[l].reg = "delay" =>
          /\ invoked[l] <= 1
          /\ invoked[l] = 1 =>
                /\ given[l] > FloorHalfMs(loops[l].each_count_time)
                /\ ~InList(loop_list, l)

\* delay(15, cb): cb has run with a cumulative dt of exactly 15 ms.
C4_Witness ==
    \E l \in 1..nloops :
       /\ loops[l].reg = "delay"
       /\ loops[l].delay_ms = 15
       /\ invoked[l] = 1
       /\ given[l] = 30

\* C5: one Loop.update call invokes the callback at most once and moves
\* current_count by at most one count (to the next count, or back to 0),
\* however many count boundaries its dt crosses.
C5_AtMostOneFirePerUpdate ==
    [][\A l \in LoopIds :
          /\ Len(fired'[l]) <= Len(fired[l]) + 1
          /\ loops'[l].current_count
                \in {loops[l].current_count, loops[l].current_count + 1, 0}]_vars

\* Loop(fps=1000, count_per_period=3) after update(1.5) and update(1.5):
\* the indices 0 and 1, one per call, with 3 ms elapsed.
C5_Witness ==
    \E l \in 1..nloops :
       /\ loops[l].fps = FloatOfInt(1000)
       /\ loops[l].count_per_period = 3
       /\ loops[l].elapsed_time = 6
       /\ fired[l] = <<0, 1>>

\* C6: while update runs, a loop whose paused flag is true keeps its
\* elapsed_time and current_count, and its callback is not invoked.
C6_PausedLoopsUntouched ==
    [][\A l \in LoopIds :
          (pc = "updating" /\ loops[l].paused) =>
             /\ loops'[l] = loops[l]
             /\ fired'[l] = fired[l]
             /\ invoked'[l] = invoked[l]]_vars

\* An update with dt > 0 has passed over a paused loop that had fired before.
C6_Witness ==
    /\ pc = "updating"
    /\ dt > 0
    /\ \E i \in 1..it :
          /\ i <= Len(loop_list)
          /\ loops[loop_list[i]].paused
          /\ Len(fired[loop_list[i]]) > 0

\* s without the elements equal to x, the others in their order.
Without(s, x) == SelectSeq(s, LAMBDA y : y # x)

\* C7: LoopManager.remove(loop) raises no error; it leaves the list
\* unchanged when the loop is not in it, and otherwise takes out exactly that
\* loop and keeps the other loops in their order.
C7_RemoveIsSafe ==
    [][\A l \in 1..nloops :
          CallRemoveOf(l) =>
             /\ outcome' = "returned"
             /\ loop_list' = Without(loop_list, l)
             /\ ~InList(loop_list, l) => loop_list' = loop_list]_vars

\* The host has removed a periodic loop and two loops are left in the list.
C7_Witness ==
    /\ pc = "idle"
    /\ Len(loop_list) = 2
    /\ \E l \in 1..nloops : loops[l].reg = "loop" /\ ~InList(loop_list, l)

(***************************************************************************)
(* Termination of LoopManager.update.                                      *)
(***************************************************************************)
\* A pass that cannot end: dt > 0, and the one loop still to be visited is
\* the last of the list, not paused, never updated, periodic, and its
\* callback registers a loop like itself.  Its first update fires index 0
\* (elapsed_time = dt > 0), the callback appends such a loop again, and the
\* iterator, which reads the list itself, finds it.
Diverging ==
    /\ pc = "updating"
    /\ dt > 0
    /\ it = Len(loop_list) - 1
    /\ LET r == loops[loop_list[Len(loop_list)]]
       IN  /\ r.reg = "loop"
           /\ r.cb = "register"
           /\ r.count_per_period >= 1
           /\ r.current_count = -1
           /\ r.elapsed_time = 0
           /\ ~r.paused

\* Every step from a Diverging state leads to a Diverging state.
DivergingPersists == [][Diverging => Diverging']_vars

\* C10: every update call terminates, also when callbacks register loops
\* whose callbacks register further loops: no pass gets into a state from
\* which it cannot end.
C10_UpdateTerminates == ~Diverging

(***************************************************************************)
(* Properties of EventManager.trigger.                                     *)
(***************************************************************************)
\* The for statement of trigger has visited the whole list (or there is
\* none): trigger is about to return.
TriggerDone == epc = "triggering" /\ eit >= Len(MapGet(event_listener_map, etype))

\* The listeners constructed for type ty, in the order of their on calls.
RegisteredFor(ty) ==
    SelectSeq([i \in 1..nlisteners |-> i], LAMBDA i : listeners[i].event_type = ty)

\* C8: trigger(T) invokes every listener registered for T exactly once, in
\* the order of the on calls, and no listener of another type; when no
\* listener is registered for T it invokes nothing and leaves the map as it
\* was.
C8_TriggerInvokesInOrder ==
    TriggerDone =>
       /\ ecalled = RegisteredFor(etype)
       /\ etype \notin DOMAIN estart =>
             ecalled = <<>> /\ event_listener_map = estart

\* trigger has invoked two listeners of its type while a listener of the
\* other type exists.
C8_Witness ==
    /\ TriggerDone
    /\ Len(ecalled) >= 2
    /\ \E i \in 1..nlisteners : listeners[i].event_type # etype

\* C9: when a listener calls on for the type being dispatched, the trigger
\* call in progress still invokes exactly the listeners registered when it
\* started, once each and in registration order.
C9_TriggerUsesSnapshot == TriggerDone => ecalled = MapGet(estart, etype)

(***************************************************************************)
(* Properties of Grid and Grid.Iterator.                                   *)
(***************************************************************************)
\* The access a names a column or row outside the grid, or an index
\* outside [0, width * height).
OutOfRange(a) ==
    \/ /\ a.kind \in {"get", "set"}
       /\ ~(0 <= a.col /\ a.col < grid_size.width /\ 0 <= a.row /\ a.row < grid_size.height)
    \/ /\ a.kind \in {"getitem", "setitem"}
       /\ ~(0 <= a.index /\ a.index < grid_size.width * grid_size.height)

\* C11: Grid.get and Grid.set with a column outside [0, width) or a row
\* outside [0, height), and index access outside [0, width * height), fail
\* with an out-of-bounds error: they read or write no cell.
C11_OutOfRangeFails ==
    OutOfRange(g_access) => g_access.outcome = "IndexError" /\ g_access.pos = -1

\* The positions of the cells of the half-open ranges of r, row by row,
\* the column advancing fastest.
RowMajor(r) ==
    LET nr == IF r.row_end > r.row_start THEN r.row_end - r.row_start ELSE 0
        nc == IF r.col_end > r.col_start THEN r.col_end - r.col_start ELSE 0
    IN  [k \in 1..(nr * nc) |->
            GetIndex(grid_size, r.col_start + ((k - 1) % nc),
                     r.row_start + ((k - 1) \div nc))]

\* C12: for ranges inside the grid the iterator yields exactly the cells of
\* the two half-open ranges in row-major order, nothing when a range is
\* empty, and an exhausted iterator has yielded them all.
C12_IteratorYieldsRange ==
    it_outcome # "none" =>
       /\ IsPrefix(yielded, RowMajor(iter))
       /\ it_outcome = "StopIteration" => yielded = RowMajor(iter)

(***************************************************************************)
(* Properties of CoordinateSet.                                            *)
(***************************************************************************)
\* The coordinates has is asked about: CoordRange and one step around it.
Probes == (-2..3) \X (-2..3)

\* C13: for every rectangle (x, y, w, h) and coordinate (cx, cy),
\* from_rect(rect).has((cx, cy)) is true exactly when x <= cx < x + w and
\* y <= cy < y + h; the set holds w * h coordinates when w, h >= 0.
C13_FromRectHas ==
    cs_rect.from_rect =>
       /\ \A c \in Probes :
             Has(coordinate_set, c) <=>
                /\ cs_rect.x <= c[1] /\ c[1] < cs_rect.x + cs_rect.width
                /\ cs_rect.y <= c[2] /\ c[2] < cs_rect.y + cs_rect.height
       /\ (cs_rect.width >= 0 /\ cs_rect.height >= 0) =>
             Cardinality(All(coordinate_set)) = cs_rect.width * cs_rect.height

\* from_rect has made the set of the 2 x 2 rectangle at (-1, 1).
C13_Witness ==
    /\ cs_rect.from_rect
    /\ cs_rect.x = -1 /\ cs_rect.y = 1
    /\ cs_rect.width = 2 /\ cs_rect.height = 2
    /\ Has(coordinate_set, <<0, 2>>)

C15_PeriodicIndicesCycle ==
    \A l \in 1..nloops :
       loops[l].reg = "loop" =>
          /\ \A i \in 1..Len(fired[l]) :
                fired[l][i] = (i - 1) % loops[l].count_per_period
          /\ invoked[l] = Len(fired[l])
          /\ InList(loop_list, l)

\* A periodic loop of three counts at 500 fps has wrapped around.
C15_Witness ==
    \E l \in 1..nloops :
       /\ loops[l].reg = "loop"
       /\ loops[l].fps = FloatOfInt(500)
       /\ fired[l] = <<0, 1, 2, 0>>

\* C16: under any sequence of update and reset calls current_count is -1,
\* and then the callback has never fired, or lies in [0, count_per_period);
\* every index passed to the callback lies in [0, count_per_period); reset
\* sets the count to 0 and a count that has left -1 never returns to it.
C16_CountInRange ==
    /\ [](\A l \in 1..nloops :
             /\ \/ loops[l].current_count = -1 /\ fired[l] = <<>>
                \/ /\ 0 <= loops[l].current_count
                   /\ loops[l].current_count < loops[l].count_per_period
             /\ \A i \in 1..Len(fired[l]) :
                   0 <= fired[l][i] /\ fired[l][i] < loops[l].count_per_period)
    /\ [][\A l \in 1..nloops :
             /\ CallResetOf(l) => loops'[l].current_count = 0
             /\ loops[l].current_count # -1 => loops'[l].current_count # -1]_vars

\* A loop of three counts that was reset before its first update has then
\* fired twice.
C16_Witness ==
    \E l \in 1..nloops :
       /\ loops[l].count_per_period = 3
       /\ fired[l] = <<1, 2>>

\* C17: an update that takes current_count from count_per_period - 1 past
\* the end of the period invokes the callback with index 0 and returns with
\* elapsed_time = 0 and current_count = 0.
C17_ResetBeforeCallback ==
    [][\A l \in 1..nloops :
          (/\ loops[l].current_count = loops[l].count_per_period - 1
           /\ Len(fired'[l]) = Len(fired[l]) + 1)
             => /\ fired'[l][Len(fired'[l])] = 0
                /\ loops'[l].elapsed_time = 0
                /\ loops'[l].current_count = 0]_vars

\* A periodic loop has just wrapped around in an update of 5 ms.
C17_Witness ==
    /\ pc = "updating"
    /\ dt = 10
    /\ \E l \in 1..nloops :
          /\ loops[l].reg = "loop"
          /\ upd[l] = 1
          /\ fired[l] = <<0, 1, 2, 0>>
          /\ loops[l].elapsed_time = 0
          /\ loops[l].current_count = 0

\* C18: remove(loop) takes the loop out of the list, and a loop that is not
\* in the list stays out of it; no update invokes its callback or changes
\* its elapsed_time or current_count.
C18_RemovedLoopIsFrozen ==
    [][\A l \in 1..nloops :
          /\ CallRemoveOf(l) => ~InList(loop_list', l)
          /\ ~InList(loop_list, l) =>
                /\ ~InList(loop_list', l)
                /\ loops'[l] = loops[l]
                /\ fired'[l] = fired[l]
                /\ invoked'[l] = invoked[l]]_vars

\* A delay loop cancelled after its first count, its callback never
\* invoked, while a later update with dt > 0 has gone through the list.
C18_Witness ==
    /\ pc = "updating"
    /\ dt > 0
    /\ it >= 1
    /\ it >= Len(loop_list)
    /\ \E l \in 1..nloops :
          /\ loops[l].reg = "delay"
          /\ fired[l] = <<0>>
          /\ invoked[l] = 0
          /\ ~InList(loop_list, l)

\* C19: under updates with dt > 0 again and again, a once or delay loop
\* that is never paused and never removed from outside eventually leaves
\* the manager's list, and the callback of a delay loop is eventually
\* invoked.
C19_OneShotsLeave ==
    \A l \in LoopIds :
       /\ (l <= nloops /\ loops[l].reg \in {"once", "delay"}) ~> ~InList(loop_list, l)
       /\ (l <= nloops /\ loops[l].reg = "delay") ~> (invoked[l] = 1)

\* A delay loop of 15 ms and a once loop of three counts have both run out.
C19_Witness ==
    /\ pc = "idle"
    /\ loop_list = <<>>
    /\ \E l \in 1..nloops :
          loops[l].reg = "delay" /\ loops[l].delay_ms = 15 /\ invoked[l] = 1
    /\ \E l \in 1..nloops :
          loops[l].reg = "once" /\ fired[l] = <<0, 1, 2>>

\* C20: the first update with dt > 0 of a loop that is not paused fires
\* index 0, whatever the fps; for a delay loop that update does not invoke
\* the callback, however large dt is.
C20_FirstUpdateFiresZero ==
    [][\A l \in 1..nloops :
          (/\ pc = "updating"
           /\ dt > 0
           /\ loops[l].elapsed_time = 0
           /\ fired[l] = <<>>
           /\ upd'[l] = upd[l] + 1)
             => /\ fired'[l] = <<0>>
                /\ loops[l].reg = "delay" => invoked'[l] = 0]_vars

\* delay(2, cb) after a first update of 5 ms: index 0 has fired, cb has not
\* been invoked.
C20_Witness ==
    \E l \in 1..nloops :
       /\ loops[l].reg = "delay"
       /\ loops[l].delay_ms = 2
       /\ given[l] = 10
       /\ fired[l] = <<0>>
       /\ invoked[l] = 0
====
